---- MODULE Spec2Model ----
(***************************************************************************)
(* State machine of the stock pattern dashboard client:                    *)
(*   - Dashboard.checkPattern, one asynchronous check per invocation       *)
(*     (Front/src/Pages/Dashboard.jsx)                                     *)
(*   - ToastProvider.toast, the notification queue with per-entry removal  *)
(*     timers (use-toast.jsx)                                              *)
(*   - Layout.checkHealth, the backend health monitor                      *)
(*     (Front/src/Layout.jsx)                                              *)
(*   - the check button of a StockCard, disabled while its symbol is       *)
(*     checked (Front/src/Components/dashboard/StockCard.jsx)              *)
(* The Dashboard page stays mounted for the whole run.                     *)
(* JavaScript runs one task at a time: every action below is one task of   *)
(* the event loop together with the microtasks it triggers, i.e. the code  *)
(* of a handler from one await to the next.  React state setters are       *)
(* called with functional updaters, so each is applied to the latest       *)
(* value in the order it was queued.                                       *)
(***************************************************************************)
EXTENDS Integers, Sequences, FiniteSets, TLC

\* ---------------------------------------------------------------- bounds

\* number of checkPattern invocations in one run
MaxOps == 2
\* number of toast() calls in one run of the notification queue on its own
MaxToasts == 3
\* time slices the model cuts the health poll period into
Slices == 2
\* number of checkPattern invocations in one run of the whole application
MaxAppOps == 1
\* size of the id space Math.random().toString(36).substring(2, 9) draws from
MaxId == 2

\* ------------------------------------------------------------- constants

\* keys of the initial stockResults object
Symbols == {"AAPL", "MSFT", "GOOGL", "AMZN", "TSLA", "META", "NVDA"}

\* symbols whose card button is used in a run
Clicked == {"AAPL", "MSFT"}

\* the card button used in a run of the whole application
AppClicked == {"AAPL"}

\* values Math.random().toString(36).substring(2, 9) can return
Ids == 1..MaxId

\* response bodies a 2xx answer can carry
Bodies == {"{pattern_detected:true}", "{pattern_detected:false}", "{}",
           "{pattern_detected:'yes'}", "null", "<html>"}

\* values of VITE_API_BASE_URL at build time; "" stands for not set
Envs == {"", "https://backend.example"}

\* how a request can end without a usable response
Failures == {"http_error", "network_error", "timeout", "body_error"}

VARIABLES
  stockResults,  \* Dashboard state: symbol -> null | true | false | ...
  isChecking,    \* Dashboard state: symbol -> undefined | true | false
  ops,           \* the checkPattern invocations, in the order they started
  toasts,        \* ToastProvider state: the notification list
  timers,        \* armed setTimeout callbacks, in the order they were armed
  created,       \* history: number of toast() calls so far
  lastSettle,    \* history: the invocation that settled last, and on what
  lastReturn,    \* history: what the last toast() call returned
  env,           \* import.meta.env.VITE_API_BASE_URL, "" when not set
  isBackendHealthy,  \* Layout state
  showHealthAlert,   \* Layout state
  polls,         \* pending checkHealth calls: the age of each, oldest first
  phase,         \* time since the setInterval timer was armed or last fired
  lastHealth,    \* history: the last event on the Layout state
  firstPeriodOver  \* history: 10000 ms have passed since Layout mounted

healthVars == <<isBackendHealthy, showHealthAlert, polls, phase, lastHealth,
                firstPeriodOver>>

vars == <<stockResults, isChecking, ops, toasts, timers, created, lastSettle,
          lastReturn, env, healthVars>>

\* ------------------------------------------------------------ JavaScript

\* JSON.parse of a body, then `const { pattern_detected } = ...`:
\* the destructured value, or the exception thrown on the way.
PatternDetected(body) ==
  CASE body = "{pattern_detected:true}"  -> "true"
    [] body = "{pattern_detected:false}" -> "false"
    [] body = "{}"                       -> "undefined"
    [] body = "{pattern_detected:'yes'}" -> "yes"
    [] body = "null"                     -> "TypeError"
    [] OTHER                             -> "SyntaxError"

Throws(v) == v \in {"TypeError", "SyntaxError"}

\* truthiness of a value in a conditional expression
Truthy(v) == v \in {"true", "yes"}

\* ------------------------------------------------------------- use-toast

NewToast(id, title, description, variant, n) ==
  [id |-> id, title |-> title, description |-> description,
   variant |-> variant, n |-> n]

PrependToast(prev, newToast) == <<newToast>> \o prev

\* setToasts((prev) => [...prev, newToast])
AppendToast(prev, newToast) == Append(prev, newToast)

\* setToasts((prev) => prev.filter((t) => t.id !== id))
RemoveToast(prev, id) == SelectSeq(prev, LAMBDA t: t.id # id)

AbortTimer(o) == [kind |-> "abort", op |-> o, id |-> 0, n |-> 0]
ToastTimer(id, n) == [kind |-> "toast", op |-> 0, id |-> id, n |-> n]

\* clearTimeout(timeoutId) of invocation o
ClearTimeout(tm, o) == SelectSeq(tm, LAMBDA t: t # AbortTimer(o))

ToastReturnId(id) == [defined |-> TRUE, id |-> id]

\* the value of a toast() call: the function has no return statement
ToastReturn(id) == [defined |-> FALSE, id |-> 0]

\* toast({ title, description, variant }): id is the random id drawn, tm the
\* timer queue as the rest of the step leaves it.
Toast(tm, id, title, description, variant) ==
  /\ toasts' = AppendToast(toasts,
                 NewToast(id, title, description, variant, created + 1))
  /\ timers' = Append(tm, ToastTimer(id, created + 1))
  /\ created' = created + 1
  /\ lastReturn' = ToastReturn(id)

\* ------------------------------------------------------------- Dashboard

Pending(s) == {o \in DOMAIN ops : ops[o].symbol = s /\ ops[o].pc # "done"}
Settled(s) == {o \in DOMAIN ops : ops[o].symbol = s /\ ops[o].pc = "done"}

SetResultError(prev, symbol) == [prev EXCEPT ![symbol] = "error"]

\* setStockResults(prev => ({ ...prev, [symbol]: null }))
SetResultNull(prev, symbol) == [prev EXCEPT ![symbol] = "null"]

SetResultNegated(prev, symbol, v) ==
  [prev EXCEPT ![symbol] = IF v = "true" THEN "false" ELSE "true"]

SetResultAll(prev, symbol, v) == [s \in DOMAIN prev |-> v]

\* setStockResults(prev => ({ ...prev, [symbol]: pattern_detected }))
SetResult(prev, symbol, v) == [prev EXCEPT ![symbol] = v]

\* setIsChecking(prev => ({ ...prev, [symbol]: true }))
MarkChecking(prev, symbol) == [prev EXCEPT ![symbol] = "true"]

KeepChecking(prev, symbol) == prev

\* finally: setIsChecking(prev => ({ ...prev, [symbol]: false }))
ClearChecking(prev, symbol) == [prev EXCEPT ![symbol] = "false"]

\* the invocation returns; event is what the network delivered to it
Finish(o, event) ==
  /\ ops' = [ops EXCEPT ![o].pc = "done"]
  /\ lastSettle' = [op |-> o, event |-> event]
  /\ UNCHANGED <<env, healthVars>>

\* catch (err) { toast(...); setStockResults(... null) } finally { ... }
CatchFinally(o, tm, id, event) ==
  /\ Toast(tm, id, "Error",
           <<"Could not reach the server or received an invalid response.">>,
           "destructive")
  /\ stockResults' = SetResultNull(stockResults, ops[o].symbol)
  /\ isChecking' = ClearChecking(isChecking, ops[o].symbol)
  /\ Finish(o, event)

\* as TriggerCheck, but a new check aborts the pending ones of its symbol
TriggerCheckCancelling(symbol) ==
  /\ Len(ops) < MaxOps
  /\ isChecking' = MarkChecking(isChecking, symbol)
  /\ ops' = Append([o \in DOMAIN ops |->
                      IF ops[o].symbol = symbol
                        THEN [ops[o] EXCEPT !.pc = "done"] ELSE ops[o]],
                   [symbol |-> symbol, pc |-> "fetch"])
  /\ timers' = Append(SelectSeq(timers, LAMBDA t:
                        ~(t.kind = "abort" /\ t.op \in Pending(symbol))),
                      AbortTimer(Len(ops) + 1))
  /\ UNCHANGED <<stockResults, toasts, created, lastSettle, lastReturn>>
  /\ UNCHANGED <<env, healthVars>>

\* checkPattern(symbol) up to `await fetch(...)`
TriggerCheck(symbol) ==
  /\ Len(ops) < MaxOps
  /\ isChecking' = MarkChecking(isChecking, symbol)
  /\ ops' = Append(ops, [symbol |-> symbol, pc |-> "fetch"])
  /\ timers' = Append(timers, AbortTimer(Len(ops) + 1))
  /\ UNCHANGED <<stockResults, toasts, created, lastSettle, lastReturn>>
  /\ UNCHANGED <<env, healthVars>>

ButtonNeverDisabled(symbol) == FALSE

\* <Button disabled={isChecking}> of the card of symbol, where the prop is
\* isChecking={isChecking[symbol]}
ButtonDisabled(symbol) == Truthy(isChecking[symbol])

\* a click on the check button of the card of symbol: a disabled button
\* dispatches no click; onClick={onCheck} is () => checkPattern(symbol)
ClickCheck(symbol) ==
  /\ ~ButtonDisabled(symbol)
  /\ TriggerCheck(symbol)

\* a click on a card button while the health monitor runs
AppClick(symbol) ==
  /\ Len(ops) < MaxAppOps
  /\ ClickCheck(symbol)

\* fetch resolves with res.ok: clearTimeout, then `await res.json()`
FetchResolvesOk(o) ==
  /\ ops[o].pc = "fetch"
  /\ timers' = ClearTimeout(timers, o)
  /\ ops' = [ops EXCEPT ![o].pc = "json"]
  /\ UNCHANGED <<stockResults, isChecking, toasts, created, lastSettle,
                 lastReturn, env, healthVars>>

\* fetch resolves with !res.ok: clearTimeout, throw, catch, finally
FetchResolvesNotOk(o, id) ==
  /\ ops[o].pc = "fetch"
  /\ CatchFinally(o, ClearTimeout(timers, o), id, "http_error")

\* fetch rejects (transport failure): catch, finally; the timer stays armed
FetchRejects(o, id) ==
  /\ ops[o].pc = "fetch"
  /\ CatchFinally(o, timers, id, "network_error")

\* as AbortTimerFires, but the abort reaches a check that has ended
AbortTimerFiresAlways(o, id) ==
  /\ timers # << >>
  /\ Head(timers) = AbortTimer(o)
  /\ CatchFinally(o, Tail(timers), id, "timeout")

\* the 3000 ms timer of invocation o fires: controller.abort()
AbortTimerFires(o, id) ==
  /\ timers # << >>
  /\ Head(timers) = AbortTimer(o)
  /\ IF ops[o].pc = "fetch"
       THEN CatchFinally(o, Tail(timers), id, "timeout")
       ELSE /\ timers' = Tail(timers)
            /\ UNCHANGED <<stockResults, isChecking, ops, toasts, created,
                           lastSettle, lastReturn, env, healthVars>>

\* res.json() resolves or throws on the complete body
JsonResolves(o, body, id) ==
  /\ ops[o].pc = "json"
  /\ LET pattern_detected == PatternDetected(body) IN
     IF Throws(pattern_detected)
       THEN CatchFinally(o, timers, id, body)
       ELSE /\ stockResults' =
                 SetResult(stockResults, ops[o].symbol, pattern_detected)
            /\ Toast(timers, id,
                     IF Truthy(pattern_detected)
                       THEN "Cup & Handle Pattern Detected"
                       ELSE "No Pattern Detected",
                     <<"Finished analyzing ", ops[o].symbol, ".">>,
                     IF Truthy(pattern_detected)
                       THEN "default" ELSE "destructive")
            /\ isChecking' = ClearChecking(isChecking, ops[o].symbol)
            /\ Finish(o, body)

\* res.json() rejects: the connection fails while the body is read
JsonRejects(o, id) ==
  /\ ops[o].pc = "json"
  /\ CatchFinally(o, timers, id, "body_error")

\* the 3000 ms removal timer of a toast fires
ToastTimerFires ==
  /\ timers # << >>
  /\ Head(timers).kind = "toast"
  /\ toasts' = RemoveToast(toasts, Head(timers).id)
  /\ timers' = Tail(timers)
  /\ UNCHANGED <<stockResults, isChecking, ops, created, lastSettle,
                 lastReturn, env, healthVars>>

\* toast() called by a consumer of the ToastContext
ToastCalled(id, title, variant) ==
  /\ created < MaxToasts
  /\ Toast(timers, id, title, <<"description">>, variant)
  /\ UNCHANGED <<stockResults, isChecking, ops, lastSettle, env, healthVars>>

\* ---------------------------------------------------------------- Layout

\* const API_BASE_URL = "http://localhost:5000" of Dashboard.jsx
DashboardApiBaseUrl == "http://localhost:5000"

\* const API_BASE_URL = import.meta.env.VITE_API_BASE_URL || "http://..."
LayoutApiBaseUrl(e) == IF e # "" THEN e ELSE "http://localhost:5000"

\* the URL checkPattern fetches for invocation o
PatternUrl(o) ==
  [base |-> DashboardApiBaseUrl, path |-> "/api/pattern",
   symbol |-> ops[o].symbol]

\* the URL checkHealth fetches
HealthUrl == [base |-> LayoutApiBaseUrl(env), path |-> "/health"]

\* setInterval(checkHealth, 10000)
HealthPeriodMs == 10000
\* AbortSignal.timeout(10000)
HealthTimeoutMs == 10000
\* the timeout of a poll, in time slices
TimeoutSlices == (HealthTimeoutMs * Slices) \div HealthPeriodMs

\* bodies a 2xx answer of /health can carry
HealthBodies == {"{status:ok}", "{status:down}", "<html>"}

RemoveAt(q, i) == SubSeq(q, 1, i - 1) \o SubSeq(q, i + 1, Len(q))

OnPollOkKeepAlert(healthy, alert) == [healthy |-> TRUE, alert |-> alert]

\* if (res.ok) { setIsBackendHealthy(true); setShowHealthAlert(false); }
OnPollOk(healthy, alert) == [healthy |-> TRUE, alert |-> FALSE]

OnPollFailNoResurface(healthy, alert) == [healthy |-> FALSE, alert |-> alert]
OnPollFailHealthyKept(healthy, alert) == [healthy |-> healthy, alert |-> TRUE]

\* catch: setIsBackendHealthy(false); setShowHealthAlert(true);
OnPollFail(healthy, alert) == [healthy |-> FALSE, alert |-> TRUE]

OnDismissMarksHealthy(healthy, alert) == [healthy |-> TRUE, alert |-> FALSE]

\* onClick={() => setShowHealthAlert(false)}
OnDismiss(healthy, alert) == [healthy |-> healthy, alert |-> FALSE]

\* the two state setters of one handler, and the record of the event
SetHealth(new, kind, body) ==
  /\ isBackendHealthy' = new.healthy
  /\ showHealthAlert' = new.alert
  /\ lastHealth' = [kind |-> kind, body |-> body,
                    healthy |-> isBackendHealthy, alert |-> showHealthAlert]

dashVars == <<stockResults, isChecking, ops, toasts, timers, created,
              lastSettle, lastReturn>>

\* one time slice passes; no timer that is due is passed over
Advance ==
  /\ phase < Slices
  /\ \A i \in DOMAIN polls : polls[i] < TimeoutSlices
  /\ phase' = phase + 1
  /\ polls' = [i \in DOMAIN polls |-> polls[i] + 1]
  /\ firstPeriodOver' = (firstPeriodOver \/ phase' = Slices)
  /\ UNCHANGED <<isBackendHealthy, showHealthAlert, lastHealth, env, dashVars>>

\* the interval timer fires: checkHealth() up to `await fetch(...)`
IntervalFires ==
  /\ phase = Slices
  /\ phase' = 0
  /\ polls' = Append(polls, 0)
  /\ UNCHANGED <<isBackendHealthy, showHealthAlert, lastHealth,
                 firstPeriodOver, env, dashVars>>

\* fetch of poll i resolves with res.ok; the body is not read
PollResolvesOk(i, body) ==
  /\ i \in DOMAIN polls
  /\ polls' = RemoveAt(polls, i)
  /\ SetHealth(OnPollOk(isBackendHealthy, showHealthAlert), "ok", body)
  /\ UNCHANGED <<phase, firstPeriodOver, env, dashVars>>

\* fetch of poll i resolves with !res.ok: throw, catch
PollResolvesNotOk(i) ==
  /\ i \in DOMAIN polls
  /\ polls' = RemoveAt(polls, i)
  /\ SetHealth(OnPollFail(isBackendHealthy, showHealthAlert),
               "http_error", "")
  /\ UNCHANGED <<phase, firstPeriodOver, env, dashVars>>

\* as PollRejects, but the catch block also raises a notification
PollRejectsToasting(i) ==
  /\ i \in DOMAIN polls
  /\ polls' = RemoveAt(polls, i)
  /\ SetHealth(OnPollFail(isBackendHealthy, showHealthAlert),
               "network_error", "")
  /\ created < MaxToasts
  /\ \E id \in Ids :
        Toast(timers, id, "Error", <<"Backend is not reachable.">>,
              "destructive")
  /\ UNCHANGED <<phase, firstPeriodOver, env, stockResults, isChecking, ops,
                 lastSettle>>

\* fetch of poll i rejects (transport failure): catch
PollRejects(i) ==
  /\ i \in DOMAIN polls
  /\ polls' = RemoveAt(polls, i)
  /\ SetHealth(OnPollFail(isBackendHealthy, showHealthAlert),
               "network_error", "")
  /\ UNCHANGED <<phase, firstPeriodOver, env, dashVars>>

PollTimeoutIgnored ==
  /\ polls # << >>
  /\ Head(polls) = TimeoutSlices
  /\ UNCHANGED vars

\* AbortSignal.timeout(10000) of the oldest poll fires: fetch rejects, catch
PollTimeoutFires ==
  /\ polls # << >>
  /\ Head(polls) = TimeoutSlices
  /\ polls' = Tail(polls)
  /\ SetHealth(OnPollFail(isBackendHealthy, showHealthAlert), "timeout", "")
  /\ UNCHANGED <<phase, firstPeriodOver, env, dashVars>>

\* the X button of the banner, which is rendered while
\* showHealthAlert && !isBackendHealthy
Dismiss ==
  /\ showHealthAlert /\ ~isBackendHealthy
  /\ SetHealth(OnDismiss(isBackendHealthy, showHealthAlert), "dismiss", "")
  /\ UNCHANGED <<polls, phase, firstPeriodOver, env, dashVars>>

\* --------------------------------------------------------- specification

\* as Init, but the effect calls checkHealth() once before arming the timer
InitPollAtStartup ==
  /\ stockResults = [s \in Symbols |-> "null"]
  /\ isChecking = [s \in Symbols |-> "undefined"]
  /\ ops = << >>
  /\ toasts = << >>
  /\ timers = << >>
  /\ created = 0
  /\ lastSettle = [op |-> 0, event |-> "none"]
  /\ lastReturn = [defined |-> FALSE, id |-> 0]
  /\ env \in Envs
  /\ isBackendHealthy = TRUE
  /\ showHealthAlert = FALSE
  /\ polls = <<0>>
  /\ phase = 0
  /\ lastHealth = [kind |-> "none", body |-> "",
                   healthy |-> TRUE, alert |-> FALSE]
  /\ firstPeriodOver = FALSE

Init ==
  /\ stockResults = [s \in Symbols |-> "null"]
  /\ isChecking = [s \in Symbols |-> "undefined"]
  /\ ops = << >>
  /\ toasts = << >>
  /\ timers = << >>
  /\ created = 0
  /\ lastSettle = [op |-> 0, event |-> "none"]
  /\ lastReturn = [defined |-> FALSE, id |-> 0]
  /\ env \in Envs
  /\ isBackendHealthy = TRUE
  /\ showHealthAlert = FALSE
  /\ polls = << >>
  /\ phase = 0
  /\ lastHealth = [kind |-> "none", body |-> "",
                   healthy |-> TRUE, alert |-> FALSE]
  /\ firstPeriodOver = FALSE

Next ==
  \/ \E s \in Clicked : TriggerCheck(s)
  \/ \E o \in DOMAIN ops : FetchResolvesOk(o)
  \/ \E o \in DOMAIN ops, id \in Ids : FetchResolvesNotOk(o, id)
  \/ \E o \in DOMAIN ops, id \in Ids : FetchRejects(o, id)
  \/ \E o \in DOMAIN ops, id \in Ids : AbortTimerFires(o, id)
  \/ \E o \in DOMAIN ops, b \in Bodies, id \in Ids : JsonResolves(o, b, id)
  \/ \E o \in DOMAIN ops, id \in Ids : JsonRejects(o, id)
  \/ ToastTimerFires

\* the dashboard: checks started at will, the network answering at will
Spec == Init /\ [][Next]_vars

\* the event loop runs every timer callback that is due; the remote service
\* owes nothing
TimersFire ==
  /\ WF_vars(\E o \in DOMAIN ops, id \in Ids : AbortTimerFires(o, id))
  /\ WF_vars(ToastTimerFires)

LiveSpec == Init /\ [][Next]_vars /\ TimersFire

Titles == {"Cup & Handle Pattern Detected", "No Pattern Detected", "Error"}
Variants == {"default", "destructive"}

NextToast ==
  \/ \E id \in Ids, title \in Titles, variant \in Variants :
        ToastCalled(id, title, variant)
  \/ ToastTimerFires

\* the notification queue on its own, toast() called at will
ToastSpec == Init /\ [][NextToast]_vars

NextHealth ==
  \/ Advance
  \/ IntervalFires
  \/ \E i \in DOMAIN polls, body \in HealthBodies : PollResolvesOk(i, body)
  \/ \E i \in DOMAIN polls : PollResolvesNotOk(i)
  \/ \E i \in DOMAIN polls : PollRejects(i)
  \/ PollTimeoutFires
  \/ Dismiss

\* the health monitor of Layout, mounted for the lifetime of the application
HealthSpec == Init /\ [][NextHealth]_vars

\* time passes and the event loop runs every timer callback that is due;
\* the remote service and the user owe nothing
HealthTimersFire ==
  /\ WF_vars(Advance)
  /\ WF_vars(IntervalFires)
  /\ WF_vars(PollTimeoutFires)

LiveHealthSpec == Init /\ [][NextHealth]_vars /\ HealthTimersFire

NextUI ==
  \/ \E s \in Clicked : ClickCheck(s)
  \/ \E o \in DOMAIN ops : FetchResolvesOk(o)
  \/ \E o \in DOMAIN ops, id \in Ids : FetchResolvesNotOk(o, id)
  \/ \E o \in DOMAIN ops, id \in Ids : FetchRejects(o, id)
  \/ \E o \in DOMAIN ops, id \in Ids : AbortTimerFires(o, id)
  \/ \E o \in DOMAIN ops, b \in Bodies, id \in Ids : JsonResolves(o, b, id)
  \/ \E o \in DOMAIN ops, id \in Ids : JsonRejects(o, id)
  \/ ToastTimerFires

\* the dashboard as its user operates it: checks start by a click on an
\* enabled card button only
UISpec == Init /\ [][NextUI]_vars

NextApp ==
  \/ \E s \in AppClicked : AppClick(s)
  \/ \E o \in DOMAIN ops : FetchResolvesOk(o)
  \/ \E o \in DOMAIN ops, id \in Ids : FetchResolvesNotOk(o, id)
  \/ \E o \in DOMAIN ops, id \in Ids : FetchRejects(o, id)
  \/ \E o \in DOMAIN ops, id \in Ids : AbortTimerFires(o, id)
  \/ \E o \in DOMAIN ops, b \in Bodies, id \in Ids : JsonResolves(o, b, id)
  \/ \E o \in DOMAIN ops, id \in Ids : JsonRejects(o, id)
  \/ ToastTimerFires
  \/ Advance
  \/ IntervalFires
  \/ \E i \in DOMAIN polls, body \in HealthBodies : PollResolvesOk(i, body)
  \/ \E i \in DOMAIN polls : PollResolvesNotOk(i)
  \/ \E i \in DOMAIN polls : PollRejects(i)
  \/ PollTimeoutFires
  \/ Dismiss

\* the whole application: the Dashboard page inside Layout, the health
\* monitor polling while checks run
AppSpec == Init /\ [][NextApp]_vars

\* ---------------------------------------------------------------- claims

Range(q) == {q[i] : i \in DOMAIN q}

\* the invocation, if any, that settles in this step
SettlesNow(o) == o \in DOMAIN ops /\ ops[o].pc # "done" /\ ops'[o].pc = "done"

\* exactly one notification is enqueued in this step, with this variant
EnqueuesOne(variant) ==
  /\ Len(toasts') = Len(toasts) + 1
  /\ SubSeq(toasts', 1, Len(toasts)) = toasts
  /\ toasts'[Len(toasts')].variant = variant
  /\ created' = created + 1

\* C1: once a check of S has settled, on whatever exit path, and no check
\* of S is pending, the in-flight marker of S is false.
C1_MarkerCleared ==
  \A s \in Symbols :
    (Settled(s) # {} /\ Pending(s) = {}) => isChecking[s] = "false"

C1_Witness ==
  /\ lastSettle.event = "timeout"
  /\ Pending(ops[lastSettle.op].symbol) = {}
  /\ isChecking[ops[lastSettle.op].symbol] = "false"

\* C2: while at least one check of S is pending, the in-flight marker of S
\* is true, overlapping checks of S included.
C2_MarkerWhilePending ==
  \A s \in Symbols : Pending(s) # {} => isChecking[s] = "true"

\* C3: every check that was started eventually settles, whatever the remote
\* service does, because its own deadline cancels it.
C3_EventuallySettles ==
  \A o \in 1..MaxOps :
    (o \in DOMAIN ops) ~> (o \in DOMAIN ops /\ ops[o].pc = "done")

WellFormed == {"{pattern_detected:true}", "{pattern_detected:false}"}
Decision(body) == IF body = "{pattern_detected:true}" THEN "true" ELSE "false"

\* C4: a check that receives a success response with the boolean decision b
\* sets the status of its symbol to b and enqueues one notification, of
\* variant "default" if b and "destructive" if not b.
C4_SuccessOutcome ==
  [][\A o \in DOMAIN ops :
       (SettlesNow(o) /\ lastSettle'.event \in WellFormed) =>
          /\ lastSettle'.op = o
          /\ stockResults'[ops[o].symbol] = Decision(lastSettle'.event)
          /\ EnqueuesOne(IF Decision(lastSettle'.event) = "true"
                           THEN "default" ELSE "destructive")]_vars

C4_Witness ==
  /\ lastSettle.event = "{pattern_detected:true}"
  /\ stockResults[ops[lastSettle.op].symbol] = "true"
  /\ toasts # << >>
  /\ toasts[Len(toasts)].variant = "default"
  /\ toasts[Len(toasts)].n = created

\* C5: a check that fails by non-success status, transport failure or
\* timeout sets the status of its symbol to null, whatever it was, never to
\* "error", and enqueues one destructive notification titled "Error".
C5_FailureOutcome ==
  [][\A o \in DOMAIN ops :
       (SettlesNow(o) /\
        lastSettle'.event \in {"http_error", "network_error", "timeout"}) =>
          /\ lastSettle'.op = o
          /\ stockResults'[ops[o].symbol] = "null"
          /\ EnqueuesOne("destructive")
          /\ toasts'[Len(toasts')].title = "Error"]_vars

\* a timeout on a symbol whose earlier check had found the pattern
C5_Witness ==
  /\ lastSettle.event = "timeout"
  /\ stockResults[ops[lastSettle.op].symbol] = "null"
  /\ Len(toasts) = 2
  /\ toasts[1].title = "Cup & Handle Pattern Detected"
  /\ toasts[1].description[2] = ops[lastSettle.op].symbol
  /\ toasts[2].title = "Error"

Malformed == Bodies \ WellFormed

\* C6: a check whose success response has a malformed body ends as a failed
\* check: status null and one destructive notification; the stored status
\* is never anything but null, true or false.
C6_MalformedIsFailure ==
  [][/\ \A o \in DOMAIN ops :
          (SettlesNow(o) /\ lastSettle'.event \in Malformed) =>
             /\ stockResults'[ops[o].symbol] = "null"
             /\ EnqueuesOne("destructive")
     /\ \A s \in Symbols : stockResults'[s] \in {"null", "true", "false"}]_vars

\* the status an invocation writes on the event that settles it
ResultOf(event) ==
  IF event \in Failures THEN "null"
  ELSE IF Throws(PatternDetected(event)) THEN "null"
  ELSE PatternDetected(event)

\* C7: every check that settles writes its own result to the status of its
\* symbol, whichever check of that symbol was started first, and nothing
\* else writes it: the check that settles last wins.  Starting a check
\* leaves every other check, and its deadline, as it was.
C7_LastSettlingWins ==
  [][/\ \A o \in DOMAIN ops :
          SettlesNow(o) =>
             /\ lastSettle'.op = o
             /\ stockResults'[ops[o].symbol] = ResultOf(lastSettle'.event)
     /\ (\A o \in DOMAIN ops : ~SettlesNow(o)) => stockResults' = stockResults
     /\ Len(ops') > Len(ops) =>
          \A o \in DOMAIN ops :
             /\ ops'[o] = ops[o]
             /\ AbortTimer(o) \in Range(timers) =>
                  AbortTimer(o) \in Range(timers')]_vars

\* two overlapping checks of one symbol; the second found the pattern and
\* settled first, the first found none and settled last
C7_Witness ==
  /\ Len(ops) = 2
  /\ ops[1].symbol = ops[2].symbol
  /\ ops[1].pc = "done" /\ ops[2].pc = "done"
  /\ lastSettle = [op |-> 1, event |-> "{pattern_detected:false}"]
  /\ Len(toasts) = 2
  /\ toasts[1].title = "Cup & Handle Pattern Detected"
  /\ stockResults[ops[1].symbol] = "false"

\* C8: a notification whose removal timer has not fired yet is still in
\* the queue.
C8_OwnTimerOnly ==
  \A i \in DOMAIN timers :
    timers[i].kind = "toast" =>
      \E j \in DOMAIN toasts : toasts[j].n = timers[i].n

\* C9: no two notifications in the queue have the same id.
C9_UniqueIds ==
  \A i, j \in DOMAIN toasts : i # j => toasts[i].id # toasts[j].id

\* C10: the list is in creation order; an enqueue appends the new
\* notification after all existing ones, and a removal leaves the others in
\* the order they had.
C10_CreationOrder ==
  [][/\ \A i, j \in DOMAIN toasts' : i < j => toasts'[i].n < toasts'[j].n
     /\ created' = created + 1 =>
          /\ Len(toasts') = Len(toasts) + 1
          /\ SubSeq(toasts', 1, Len(toasts)) = toasts
          /\ toasts'[Len(toasts')].n = created'
     /\ created' = created =>
          toasts' = SelectSeq(toasts, LAMBDA t : t \in Range(toasts'))]_vars

\* the oldest notification removed, the two younger ones left in order
C10_Witness ==
  /\ created = 3
  /\ Len(toasts) = 2
  /\ toasts[1].n = 2
  /\ toasts[2].n = 3

\* C11: toast() returns the id of the notification it has just appended.
C11_ReturnsNewId ==
  [][created' = created + 1 =>
       lastReturn' = [defined |-> TRUE, id |-> toasts'[Len(toasts')].id]]_vars

\* C11, amended: toast() returns no value; the id of the notification it
\* has just appended is held only by the queue entry and its removal timer.
C11_ReturnsNothing ==
  [][created' = created + 1 =>
       /\ lastReturn'.defined = FALSE
       /\ toasts'[Len(toasts')].n = created'
       /\ timers'[Len(timers')] =
            ToastTimer(toasts'[Len(toasts')].id, created')]_vars

C11_Witness ==
  /\ created > 0
  /\ toasts # << >>
  /\ toasts[Len(toasts)].n = created
  /\ lastReturn.defined = FALSE

\* a poll settles in this step
PollSettles == Len(polls') < Len(polls)

PollFailures == {"http_error", "network_error", "timeout"}

\* C12: a poll answered with a 2xx status leaves the monitor Healthy/Hidden,
\* whatever state it was in.
C12_PollSucceeds ==
  [][(PollSettles /\ lastHealth'.kind = "ok") =>
       (isBackendHealthy' = TRUE /\ showHealthAlert' = FALSE)]_vars

\* a successful poll after the alert had been raised and still showed
C12_Witness ==
  /\ lastHealth.kind = "ok"
  /\ lastHealth.healthy = FALSE /\ lastHealth.alert = TRUE
  /\ isBackendHealthy = TRUE /\ showHealthAlert = FALSE

\* C13: a poll that fails by status, transport error or timeout leaves the
\* monitor Unhealthy/Visible, whatever state it was in, a dismissed alert
\* included.
C13_PollFails ==
  [][(PollSettles /\ lastHealth'.kind \in PollFailures) =>
       (isBackendHealthy' = FALSE /\ showHealthAlert' = TRUE)]_vars

\* a failed poll after the user had dismissed the alert
C13_Witness ==
  /\ lastHealth.kind \in PollFailures
  /\ lastHealth.healthy = FALSE /\ lastHealth.alert = FALSE
  /\ isBackendHealthy = FALSE /\ showHealthAlert = TRUE

\* C14: dismiss happens only in Unhealthy/Visible, where it hides the alert
\* and leaves isBackendHealthy as it was; in any other state there is no
\* dismiss.
C14_Dismiss ==
  [][/\ (lastHealth'.kind = "dismiss" /\ lastHealth' # lastHealth) =>
          /\ isBackendHealthy = FALSE /\ showHealthAlert = TRUE
          /\ isBackendHealthy' = isBackendHealthy
          /\ showHealthAlert' = FALSE
     /\ (ENABLED Dismiss) <=> (showHealthAlert /\ ~isBackendHealthy)]_vars

C14_Witness ==
  /\ lastHealth.kind = "dismiss"
  /\ isBackendHealthy = FALSE /\ showHealthAlert = FALSE

\* C15: a /health answer with a 2xx status whose body is not {status: ok}
\* counts as a failed poll and leaves the monitor Unhealthy/Visible.
C15_MalformedPollFails ==
  [][(PollSettles /\ lastHealth'.kind = "ok" /\
      lastHealth'.body # "{status:ok}") =>
       (isBackendHealthy' = FALSE /\ showHealthAlert' = TRUE)]_vars

\* C16: whatever the earlier polls did, a new poll is started again and
\* again, and polls settle again and again.
C16_MonitoringNeverEnds ==
  /\ []<>(phase = 0 /\ polls # << >> /\ polls[Len(polls)] = 0)
  /\ []<><<PollSettles>>_vars

\* a poll ended by its own timeout, and the next poll already under way
C16_Witness ==
  /\ lastHealth.kind = "timeout"
  /\ polls # << >>

\* the base URL the configuration asks for
ConfiguredBaseUrl == IF env # "" THEN env ELSE "http://localhost:5000"

\* C17: every request, pattern check or health poll, goes to the configured
\* base URL: the override when one is set, the local default otherwise.
C17_OneBaseUrl ==
  /\ \A o \in DOMAIN ops : PatternUrl(o).base = ConfiguredBaseUrl
  /\ polls # << >> => HealthUrl.base = ConfiguredBaseUrl

DoneOps(q) == {o \in DOMAIN q : q[o].pc = "done"}

\* C18: an invocation sends one request and settles once: it never goes
\* back to fetching, and the step in which it settles is the only one that
\* enqueues a notification, writes a status or clears a marker, also when
\* its timer fires after a transport failure; n settled invocations have
\* produced n notifications.
C18_SettlesOnce ==
  [][/\ \A o \in DOMAIN ops :
          /\ ops[o].pc = "done" => ops'[o].pc = "done"
          /\ ops'[o].pc = "fetch" => ops[o].pc = "fetch"
     /\ created' = Cardinality(DoneOps(ops'))
     /\ LET settling == {o \in DOMAIN ops : SettlesNow(o)} IN
          /\ Cardinality(settling) <= 1
          /\ created' - created = Cardinality(settling)
          /\ Len(toasts') <= Len(toasts) + Cardinality(settling)
          /\ settling = {} =>
               /\ stockResults' = stockResults
               /\ \A s \in Symbols :
                    isChecking'[s] = "false" => isChecking[s] = "false"]_vars

\* a check ended by a transport failure, whose timer has fired since
C18_Witness ==
  /\ Len(ops) = 1
  /\ lastSettle = [op |-> 1, event |-> "network_error"]
  /\ AbortTimer(1) \notin Range(timers)
  /\ created = 1

\* C19: a step changes the status or the marker of a symbol only if it
\* starts or advances a check of that symbol, and the set of tracked
\* symbols never changes.
C19_SymbolsIndependent ==
  [][/\ \A t \in Symbols :
          (stockResults'[t] # stockResults[t] \/ isChecking'[t] # isChecking[t])
            => \E o \in DOMAIN ops' :
                 /\ ops'[o].symbol = t
                 /\ o \in DOMAIN ops => ops'[o] # ops[o]
     /\ DOMAIN stockResults' = Symbols]_vars

\* concurrent checks of two symbols, settled in the reverse of the order
\* they were started in, each symbol with its own result
C19_Witness ==
  /\ Len(ops) = 2
  /\ ops[1].symbol # ops[2].symbol
  /\ ops[1].pc = "done" /\ ops[2].pc = "done"
  /\ lastSettle = [op |-> 1, event |-> "{pattern_detected:false}"]
  /\ stockResults[ops[1].symbol] = "false"
  /\ stockResults[ops[2].symbol] = "true"

\* C20: the alert is never visible while the backend counts as healthy.
C20_NoHealthyVisible == showHealthAlert => ~isBackendHealthy

\* Unhealthy/Hidden, reached by a dismissal, with two polls overlapping
C20_Witness ==
  /\ lastHealth.kind = "dismiss"
  /\ isBackendHealthy = FALSE /\ showHealthAlert = FALSE
  /\ Len(polls) = 2

\* the two fields of the Layout state the banner depends on
HealthState == <<isBackendHealthy, showHealthAlert>>

\* C21: the health monitor and the checks leave each other's state alone: a
\* step in which a health poll starts or settles changes no status, no
\* in-flight marker and no notification, a step of a check changes neither
\* isBackendHealthy nor showHealthAlert, and these two change only when a
\* poll settles or the banner is dismissed.
C21_Frame ==
  [][/\ (Len(polls') # Len(polls)) => dashVars' = dashVars
     /\ (ops' # ops) => HealthState' = HealthState
     /\ (HealthState' # HealthState) =>
           \/ PollSettles
           \/ lastHealth'.kind = "dismiss" /\ polls' = polls]_vars

\* a check has found the pattern and its notification is still shown while
\* the monitor, after a poll that timed out, shows the alert
C21_Witness ==
  /\ lastSettle.event = "{pattern_detected:true}"
  /\ stockResults[ops[lastSettle.op].symbol] = "true"
  /\ isChecking[ops[lastSettle.op].symbol] = "false"
  /\ Len(toasts) = 1
  /\ lastHealth.kind = "timeout"
  /\ ~isBackendHealthy /\ showHealthAlert

\* C22: the Layout state starts as healthy with the alert hidden and no
\* poll is pending before the first 10000 ms period is over; it stays
\* healthy and hidden as long as no poll has settled, however long the
\* backend stays silent.
C22_HealthyUntilFirstPoll ==
  /\ ~firstPeriodOver => (polls = << >> /\ lastHealth.kind = "none")
  /\ lastHealth.kind = "none" => (isBackendHealthy /\ ~showHealthAlert)

\* the second period is over, neither poll has been answered, and the
\* Layout still counts the backend as healthy
C22_Witness ==
  /\ firstPeriodOver
  /\ Len(polls) = 2
  /\ lastHealth.kind = "none"
  /\ isBackendHealthy /\ ~showHealthAlert

\* C23: through the card buttons no check of S starts while the in-flight
\* marker of S is true, so at most one check of a symbol is pending at any
\* time and the marker is true while it is; a symbol without a pending
\* check can still be checked.
C23_OneCheckPerSymbol ==
  /\ \A s \in Symbols : Cardinality(Pending(s)) <= 1
  /\ \A s \in Symbols : Pending(s) # {} => isChecking[s] = "true"
  /\ \A s \in Clicked : isChecking[s] = "true" => ~ENABLED ClickCheck(s)
  /\ \A s \in Clicked :
        (Pending(s) = {} /\ Len(ops) < MaxOps) => ENABLED ClickCheck(s)

\* the response of the check of AAPL is being read: its button is
\* disabled, the button of MSFT is not
C23_Witness ==
  /\ Len(ops) = 1
  /\ ops[1].symbol = "AAPL" /\ ops[1].pc = "json"
  /\ ~ENABLED ClickCheck("AAPL")
  /\ ENABLED ClickCheck("MSFT")

====
